---- MODULE Spec2Model ----
(***************************************************************************)
(* johnny - generic dependencies tracker (src/johnny/__init__.py).         *)
(*                                                                         *)
(* The model follows the module function by function.  One run of cli()    *)
(* is the state machine Spec: get_vers drives the primary phase            *)
(* (get_primary), computes the left-over packages and drives the two       *)
(* passes of the secondary phase (get_secondary / run_secondary /          *)
(* get_secondary_source).  Every adapter call is a fan-out of requests     *)
(* (fetch), their completion one by one, and a fan-in that consumes the    *)
(* responses after asyncio.wait has returned.  FairSpec is Spec under the  *)
(* event loop's scheduling.  MergeSpec, CommuteSpec, AurSpec and ForgeSpec *)
(* apply update(), update() in two orders, aaur()'s result loop and        *)
(* agithub()'s result loop to every input of the bounds.                   *)
(*                                                                         *)
(* Readings of the source the model rests on:                              *)
(*  - agit (line 53) is declared with "def" but awaits; the model reads it *)
(*    as the coroutine it is used as by git() (line 82).                   *)
(*  - asyncio.wait raises ValueError on an empty set of awaitables.        *)
(*  - aiohttp's ClientResponse.text is a coroutine method, so the          *)
(*    attribute access r.text.splitlines (line 69) raises AttributeError.  *)
(*  - packaging.version.parse returns a LegacyVersion for a string that    *)
(*    is not a PEP 440 version; Version.base_version drops pre-release,    *)
(*    post-release, dev and local parts; versions compare by release       *)
(*    tuple with trailing zeros removed.                                   *)
(*  - a click flag option declared with default=None is None in kwargs    *)
(*    when neither --x nor --no-x is given.                                *)
(***************************************************************************)
EXTENDS Integers, Sequences, FiniteSets, TLC

(* ------------------------------ bounds -------------------------------- *)

\* greatest release number a version string carries
MaxVer == 2

\* greatest number of entries (tags, releases, results) in one response
MaxTags == 1

\* greatest number of strings try_parse_versions is given at once
MaxCands == 2

(* ------------------------- version strings ---------------------------- *)

\* A raw version string as a source returns it: an optional leading "v",
\* the release segments, an optional pre-release suffix ("rc1"), or a
\* string that is no PEP 440 version at all (legacy).
RawString(v, rel, pre, legacy) ==
    [v |-> v, rel |-> rel, pre |-> pre, legacy |-> legacy]

\* release tuples: "n", "n.0" and "n.1"
Releases ==
    {<<n>> : n \in 1..MaxVer} \cup {<<n, m>> : n \in 1..MaxVer, m \in 0..1}

RawStrings ==
    {RawString(v, rel, pre, FALSE) : v \in BOOLEAN, rel \in Releases, pre \in BOOLEAN}
        \cup {RawString(FALSE, <<>>, FALSE, TRUE)}

\* a parsed packaging.version.Version, reduced to its base version
Versions == [rel : Releases]

\* packaging.version._cmpkey: the release with trailing zeros removed
RECURSIVE StripZeros(_)
StripZeros(rel) ==
    IF rel = <<>> THEN <<>>
    ELSE IF rel[Len(rel)] = 0 THEN StripZeros(SubSeq(rel, 1, Len(rel) - 1))
    ELSE rel

\* Python tuple comparison a < b
RECURSIVE TupleLess(_, _)
TupleLess(a, b) ==
    IF b = <<>> THEN FALSE
    ELSE IF a = <<>> THEN TRUE
    ELSE IF Head(a) # Head(b) THEN Head(a) < Head(b)
    ELSE TupleLess(Tail(a), Tail(b))

\* Version.__lt__, __gt__, __eq__, __ge__
VerLt(a, b) == TupleLess(StripZeros(a.rel), StripZeros(b.rel))
VerGt(a, b) == VerLt(b, a)
VerEq(a, b) == StripZeros(a.rel) = StripZeros(b.rel)
VerGe(a, b) == ~VerLt(a, b)

\* sorted(): stable insertion of x into an ascending sequence
RECURSIVE InsertSorted(_, _)
InsertSorted(s, x) ==
    IF s = <<>> THEN <<x>>
    ELSE IF VerLt(x, Head(s)) THEN <<x>> \o s
    ELSE <<Head(s)>> \o InsertSorted(Tail(s), x)

RECURSIVE SortVersions(_)
SortVersions(s) ==
    IF s = <<>> THEN <<>>
    ELSE InsertSorted(SortVersions(SubSeq(s, 1, Len(s) - 1)), s[Len(s)])

\* the loop body of try_parse_versions dropping a pre-release the way it
\* drops a LegacyVersion
ParseOne_nopre(raw) ==
    IF raw.legacy \/ raw.pre THEN <<>> ELSE <<[rel |-> raw.rel]>>

\* the loop body of try_parse_versions for one string: strip "v", parse,
\* drop a LegacyVersion, reduce to base_version and parse again
ParseOne(raw) ==
    IF raw.legacy THEN <<>> ELSE <<[rel |-> raw.rel]>>

RECURSIVE ParseAll(_)
ParseAll(raws) ==
    IF raws = <<>> THEN <<>>
    ELSE ParseOne(Head(raws)) \o ParseAll(Tail(raws))

try_parse_versions(versions) == SortVersions(ParseAll(versions))

\* str(Version): the release segments joined by "."
Digit(n) == <<"0", "1", "2", "3", "4", "5", "6", "7", "8", "9">>[n + 1]

RECURSIVE JoinRelease(_)
JoinRelease(rel) ==
    IF Len(rel) = 1 THEN <<Digit(rel[1])>>
    ELSE <<Digit(Head(rel)), ".">> \o JoinRelease(Tail(rel))

VersionStr(ver) == JoinRelease(ver.rel)

(* ------------------------------- maps --------------------------------- *)

EmptyMap == [k \in {} |-> k]

\* update(old, new) with a replacement that is not a selection: a present
\* key whose new value is not greater is dropped
update_drop(old, new) ==
    [k \in (DOMAIN old \ {x \in DOMAIN new : x \in DOMAIN old /\ ~VerGt(new[x], old[x])})
            \cup (DOMAIN new \ DOMAIN old) |->
        IF k \notin DOMAIN old THEN new[k]
        ELSE IF k \in DOMAIN new /\ VerGt(new[k], old[k]) THEN new[k]
        ELSE old[k]]

\* update(old, new) comparing the wrong way round
update_less(old, new) ==
    [k \in DOMAIN old \cup DOMAIN new |->
        IF k \notin DOMAIN old THEN new[k]
        ELSE IF k \in DOMAIN new /\ VerLt(new[k], old[k]) THEN new[k]
        ELSE old[k]]

\* update(old, new) replacing on a tie as well
update_ge(old, new) ==
    [k \in DOMAIN old \cup DOMAIN new |->
        IF k \notin DOMAIN old THEN new[k]
        ELSE IF k \in DOMAIN new /\ VerGe(new[k], old[k]) THEN new[k]
        ELSE old[k]]

\* update(old, new) with new always winning
update_last(old, new) ==
    [k \in DOMAIN old \cup DOMAIN new |->
        IF k \in DOMAIN new THEN new[k] ELSE old[k]]

update(old, new) ==
    [k \in DOMAIN old \cup DOMAIN new |->
        IF k \notin DOMAIN old THEN new[k]
        ELSE IF k \in DOMAIN new /\ VerGt(new[k], old[k]) THEN new[k]
        ELSE old[k]]

make_serializable(s) == [k \in DOMAIN s |-> VersionStr(s[k])]

(* ------------------------------ catalog ------------------------------- *)

\* sources_list (line 200), in its order, and the whole registry "sources"
sources_list == <<"github", "gitlab", "aur", "arch">>

Sources == {"github", "gitlab", "aur", "arch", "github_tags", "gitlab_tags", "git"}

\* sorted() over the primary names: the order of Python string comparison
SortedSources ==
    <<"arch", "aur", "git", "github", "github_tags", "gitlab", "gitlab_tags">>

\* the package names of a catalog document, in document order
NameSeq == <<"bar", "foo">>

\* One catalog entry: primary = "" stands for no "primary" key, github and
\* gitlab say whether the entry has that identifier, url = "" stands for no
\* "url" key; otherwise url is the scheme of the URL.
PackageSpec(primary, github, gitlab, url) ==
    [primary |-> primary, github |-> github, gitlab |-> gitlab, url |-> url]

PackageSpecs ==
    { PackageSpec("", FALSE, FALSE, ""),
      PackageSpec("", TRUE, FALSE, ""),
      PackageSpec("", TRUE, TRUE, ""),
      PackageSpec("aur", TRUE, FALSE, ""),
      PackageSpec("github", TRUE, TRUE, ""),
      PackageSpec("gitlab_tags", FALSE, TRUE, ""),
      PackageSpec("git", TRUE, FALSE, "https"),
      PackageSpec("git", TRUE, FALSE, "ssh") }

Catalogs ==
    UNION {[{NameSeq[i] : i \in 1..n} -> PackageSpecs] : n \in 1..Len(NameSeq)}

Options ==
    [primary : BOOLEAN, secondary : BOOLEAN,
     trust_primary : BOOLEAN, trust_secondary : BOOLEAN]

\* the options that steer get_vers
OptionNames == {"primary", "secondary", "trust_primary", "trust_secondary"}

\* the keys of cli's kwargs (lines 337-356): what read_config accepts
AllowList ==
    OptionNames \cup {"github_token", "gitlab_token", "print_names", "quiet"}

\* defaults, lines 308-315, for the options that steer get_vers
defaults == [k \in OptionNames |-> TRUE]

\* The command line: every option is given as --x ("on"), as --no-x ("off")
\* or not at all ("unset", click's None).
KwargSets ==
    [OptionNames -> {"unset", "off"}] \cup {[k \in OptionNames |-> "on"]}

NoKwargs == [k \in OptionNames |-> "unset"]

\* The johnny_config block of the document: none, one with a key that is no
\* option, one that switches the secondary phase off.
ConfigBlocks ==
    {[k \in {} |-> TRUE], [k \in {"bogus"} |-> TRUE], [k \in {"secondary"} |-> FALSE]}

\* read_config, lines 320-322, accepting every key
Rejected_none(config) == {}

\* read_config, lines 320-322: the keys it raises KeyError for
Rejected(config) == DOMAIN config \ AllowList

\* read_config, lines 323-326: the command line, then the block, then defaults
read_config(kw, config) ==
    [k \in OptionNames |->
        IF kw[k] # "unset" THEN kw[k] = "on"
        ELSE IF k \in DOMAIN config THEN config[k]
        ELSE defaults[k]]

\* list(pkgs.items()): the names of a package set in document order
Items(pkgs) == SelectSeq(NameSeq, LAMBDA n : n \in pkgs)

(* ------------------------------ adapters ------------------------------ *)

\* the version strings the modelled servers hand out
WireStrings ==
    {RawString(FALSE, <<n>>, FALSE, FALSE) : n \in 1..(MaxVer - 1)}
        \cup {RawString(TRUE, <<MaxVer, 0>>, FALSE, FALSE),
              RawString(FALSE, <<>>, FALSE, TRUE)}

SeqsUpTo(S, n) == UNION {[1..k -> S] : k \in 0..n}

\* One entry of the aggregator's answer for one queried name: the entry of
\* that package, a null entry, or no entry at all (omitted from the array).
AurEntry(kind, ver) == [kind |-> kind, Version |-> ver]

AurEntries ==
    {AurEntry("omit", RawString(FALSE, <<>>, FALSE, TRUE)),
     AurEntry("null", RawString(FALSE, <<>>, FALSE, TRUE))}
        \cup {AurEntry("pkg", raw) : raw \in WireStrings}

\* the "results" array on the wire: the entries the server did not omit
AurResults(own) == SelectSeq(own, LAMBDA e : e.kind # "omit")

\* the requests an adapter issues over a package set: the names it calls
\* fetch with (the aggregator issues the one request "aur")
Requests(s, cat, pkgs) ==
    CASE s \in {"github", "github_tags"} -> {n \in pkgs : cat[n].github}
      [] s \in {"gitlab", "gitlab_tags"} -> {n \in pkgs : cat[n].gitlab}
      [] s = "arch" -> pkgs
      [] s = "aur" -> {"aur"}
      [] s = "git" -> {n \in pkgs : cat[n].url \in {"http", "https"}
                                     /\ cat[n].primary = "git"}

\* What await r.json() can yield for one response, read by the adapter
\* after the whole batch has completed: the tag or release names of a forge,
\* the pkgver fields of the distribution index, or, for the aggregator, its
\* answer for each queried name.
Bodies(s, pkgs) ==
    IF s = "aur"
    THEN [1..Cardinality(pkgs) -> AurEntries]
    ELSE SeqsUpTo(WireStrings, MaxTags)

\* Failed(resp) with every failure swallowed
Failed_none(resp) == {}

\* t.result() raises for these requests: resp[n] says whether asession.get
\* returned a response (TRUE) or raised a transport error (FALSE)
Failed(resp) == {n \in DOMAIN resp : ~resp[n]}

\* agithub / agitlab, lines 133-141, taking vers[0] where line 140 takes
\* vers[-1]
agithub_first(body) ==
    LET latest(n) == try_parse_versions(body[n])
    IN  [n \in {m \in DOMAIN body : body[m] # <<>> /\ latest(m) # <<>>} |->
            latest(n)[1]]

\* agithub / agitlab, lines 133-141 and 101-109: the latest parsed version
\* of each response that has one
agithub_res(body) ==
    LET latest(n) == try_parse_versions(body[n])
    IN  [n \in {m \in DOMAIN body : body[m] # <<>> /\ latest(m) # <<>>} |->
            latest(n)[Len(latest(n))]]

\* aarch, lines 160-168: the first result's pkgver
aarch_res(body) ==
    LET first(n) == try_parse_versions(<<body[n][1]>>)
    IN  [n \in {m \in DOMAIN body : body[m] # <<>> /\ first(m) # <<>>} |->
            first(n)[1]]

\* aaur, lines 186-192: result i belongs to items[i]
aaur_res(items, results) ==
    LET parsed(i) == try_parse_versions(<<results[i].Version>>)
        hit == {i \in 1..Len(results) : results[i].kind # "null" /\ parsed(i) # <<>>}
    IN  [n \in {items[i] : i \in hit} |->
            parsed(CHOOSE i \in hit : items[i] = n)[1]]

\* the mapping adapter s returns over pkgs, the responses' bodies given
AdapterResult(s, pkgs, body) ==
    CASE s \in {"github", "github_tags", "gitlab", "gitlab_tags"} -> agithub_res(body)
      [] s = "arch" -> aarch_res(body)
      [] s = "aur" -> aaur_res(Items(pkgs), AurResults(body["aur"]))

\* every mapping adapter s can return over pkgs: one for each way the
\* bodies of its requests reqs can read
AdapterResults(s, pkgs, reqs) ==
    {AdapterResult(s, pkgs, body) : body \in [reqs -> Bodies(s, pkgs)]}

(* -------------------------------- state -------------------------------- *)

VARIABLES
    c,            \* the catalog (cli: c after johnny_config is removed)
    kwargs,       \* the options as given on the command line
    jc,           \* the johnny_config block of the document
    args,         \* the options after read_config
    pc,           \* where the run is
    vers,         \* ResolvedMap: get_vers' vers
    asked,        \* get_primary's asked
    left,         \* LeftSet: the key set of get_vers' left
    todo,         \* the sources the running loop has still to visit
    pass,         \* which run_secondary call of get_secondary is running
    cur,          \* the adapter call in progress
    inflight,     \* requests issued and not yet completed
    resp,         \* completed requests: response (TRUE) or transport error
    exc,          \* the exception that ended the run, "" if none
    output,       \* what cli printed on standard output: <<>> or <<mapping>>
    exitcode,     \* the process's exit status, -1 while it runs
    calls,        \* history: the adapter invocations so far, in order
    primRes,      \* history: names some primary adapter returned a version for
    leftStart,    \* history: LeftSet as get_vers computed it (line 296-299)
    best,         \* history: per name, the greatest version an adapter returned
    lower,        \* history: names an adapter returned a lower version for
                  \* than the one mapped at that time
    secRes,       \* history: names some secondary adapter returned a version for
    failedBatch,  \* history: <<>>, or what the run was when a request failed
    m_pc, m_old0, m_old, m_new, m_res, m_again,   \* update() on its own
    a_pc, a_pkgs, a_own, a_res,                   \* aaur() on its own
    q_pc, q_old, q_a, q_b, q_ab, q_ba,            \* two update() orders
    f_pc, f_body, f_res                           \* agithub()'s loop on its own

commuteVars == <<q_pc, q_old, q_a, q_b, q_ab, q_ba>>

forgeVars == <<f_pc, f_body, f_res>>

mergeVars == <<m_pc, m_old0, m_old, m_new, m_res, m_again>>

aurVars == <<a_pc, a_pkgs, a_own, a_res>>

vars ==
    <<c, kwargs, jc, args, pc, vers, asked, left, todo, pass, cur, inflight, resp, exc,
      output, exitcode, calls, primRes, leftStart, best, lower, secRes,
      failedBatch, mergeVars, aurVars, commuteVars, forgeVars>>

hist == <<primRes, leftStart, best, lower, secRes, failedBatch>>

\* what no step of get_vers changes
fixed == <<c, kwargs, jc, args, mergeVars, aurVars, commuteVars, forgeVars>>

NoCall == [phase |-> "", source |-> "", pkgs |-> {}]

Invocation(phase, s, pkgs) == [phase |-> phase, source |-> s, pkgs |-> pkgs]

\* the run before cli is entered
RunIdle ==
    /\ pc = "cli"
    /\ vers = EmptyMap
    /\ asked = {}
    /\ left = {}
    /\ todo = <<>>
    /\ pass = 0
    /\ cur = NoCall
    /\ inflight = {}
    /\ resp = EmptyMap
    /\ exc = ""
    /\ output = <<>>
    /\ exitcode = -1
    /\ calls = <<>>
    /\ primRes = {}
    /\ leftStart = {}
    /\ best = [n \in DOMAIN c |-> <<>>]
    /\ lower = {}
    /\ secRes = {}
    /\ failedBatch = <<>>

MergeIdle ==
    /\ m_pc = "idle"
    /\ m_old0 = EmptyMap
    /\ m_old = EmptyMap
    /\ m_new = EmptyMap
    /\ m_res = EmptyMap
    /\ m_again = EmptyMap

AurIdle ==
    /\ a_pc = "idle"
    /\ a_pkgs = {}
    /\ a_own = <<>>
    /\ a_res = EmptyMap

CommuteIdle ==
    /\ q_pc = "idle"
    /\ q_old = EmptyMap
    /\ q_a = EmptyMap
    /\ q_b = EmptyMap
    /\ q_ab = EmptyMap
    /\ q_ba = EmptyMap

ForgeIdle ==
    /\ f_pc = "idle"
    /\ f_body = EmptyMap
    /\ f_res = EmptyMap

\* no command line, no options block
ConfigIdle ==
    /\ kwargs = NoKwargs
    /\ jc = [k \in {} |-> TRUE]
    /\ args = defaults

Init ==
    /\ c \in Catalogs
    /\ kwargs \in KwargSets
    /\ jc \in ConfigBlocks
    /\ args = defaults
    /\ RunIdle
    /\ MergeIdle
    /\ AurIdle
    /\ CommuteIdle
    /\ ForgeIdle

(* --------------------------- get_primary ------------------------------ *)

\* lines 241-243: the distinct primary names, sorted
PrimaryGroups(cat) ==
    SelectSeq(SortedSources, LAMBDA k : \E n \in DOMAIN cat : cat[n].primary = k)

\* lines 247-248 handing every package to every group
PrimaryGroup_all(cat, k) == DOMAIN cat

\* line 247-248: the packages of group k
PrimaryGroup(cat, k) == {n \in DOMAIN cat : cat[n].primary = k}

\* An uncaught exception unwinds cli: nothing is printed, the status is 1.
Raise(e) ==
    /\ pc' = "aborted"
    /\ exc' = e
    /\ exitcode' = 1

\* s(args, pkgs) up to the await of asyncio.wait / fetch: the requests are
\* created and all of them are scheduled, or asyncio.wait refuses an empty set.
Call(phase, s, pkgs) ==
    /\ calls' = Append(calls, Invocation(phase, s, pkgs))
    /\ cur' = Invocation(phase, s, pkgs)
    /\ resp' = EmptyMap
    /\ IF Requests(s, c, pkgs) = {}
       THEN /\ Raise("ValueError")
            /\ inflight' = {}
       ELSE /\ pc' = "waiting"
            /\ inflight' = Requests(s, c, pkgs)
            /\ UNCHANGED <<exc, exitcode>>

\* cli, lines 358-362: read_config rejects the block or yields the options
ReadConfig ==
    /\ pc = "cli"
    /\ IF Rejected(jc) # {}
       THEN /\ Raise("KeyError")
            /\ UNCHANGED args
       ELSE /\ args' = read_config(kwargs, jc)
            /\ pc' = "start"
            /\ UNCHANGED <<exc, exitcode>>
    /\ UNCHANGED <<c, kwargs, jc, mergeVars, aurVars, commuteVars, forgeVars, vers, asked, left, todo,
                   pass, cur, inflight, resp, output, calls, hist>>

\* get_vers, lines 292-295, with the primary phase enabled
BeginPrimary ==
    /\ pc = "start"
    /\ args.primary
    /\ todo' = PrimaryGroups(c)
    /\ pc' = "primary"
    /\ UNCHANGED <<fixed, vers, asked, left, pass, cur, inflight, resp, exc,
                   output, exitcode, calls, hist>>

\* get_vers, lines 292-294, with the primary phase disabled
SkipPrimary ==
    /\ pc = "start"
    /\ ~args.primary
    /\ pc' = "left"
    /\ UNCHANGED <<fixed, vers, asked, left, todo, pass, cur, inflight, resp,
                   exc, output, exitcode, calls, hist>>

\* get_primary, lines 246-251: the next group's adapter is called
InvokePrimary ==
    /\ pc = "primary"
    /\ todo # <<>>
    /\ asked' = asked \cup {Head(todo)}
    /\ todo' = Tail(todo)
    /\ Call("primary", Head(todo), PrimaryGroup(c, Head(todo)))
    /\ UNCHANGED <<fixed, vers, left, pass, output, hist>>

\* get_primary, line 254
EndPrimary ==
    /\ pc = "primary"
    /\ todo = <<>>
    /\ pc' = "left"
    /\ UNCHANGED <<fixed, vers, asked, left, todo, pass, cur, inflight, resp,
                   exc, output, exitcode, calls, hist>>

(* ---------------------------- get_vers -------------------------------- *)

\* lines 296-299 taking the else branch whatever trust_primary is
LeftAfterPrimary_all(cat, v, trust_primary) == DOMAIN cat

\* lines 296-299
LeftAfterPrimary(cat, v, trust_primary) ==
    IF trust_primary THEN DOMAIN cat \ DOMAIN v ELSE DOMAIN cat

\* run_secondary, line 269, with the second pass asking nothing
PassSources_skip(p, a) ==
    IF p = 1 THEN SelectSeq(sources_list, LAMBDA x : x \notin a) ELSE <<>>

\* run_secondary, line 269: the sources of one pass, in sources_list order
PassSources(p, a) ==
    SelectSeq(sources_list, LAMBDA x : IF p = 1 THEN x \notin a ELSE x \in a)

\* lines 296-301: LeftSet is computed and the secondary phase entered or not
ComputeLeft ==
    /\ pc = "left"
    /\ left' = LeftAfterPrimary(c, vers, args.trust_primary)
    /\ leftStart' = left'
    /\ IF args.secondary /\ left' # {}
       THEN /\ pc' = "secondary"
            /\ pass' = 1
            /\ todo' = PassSources(1, asked)
       ELSE /\ pc' = "finish"
            /\ UNCHANGED <<pass, todo>>
    /\ UNCHANGED <<fixed, vers, asked, cur, inflight, resp, exc, output,
                   exitcode, calls, primRes, best, lower, secRes, failedBatch>>

(* --------------------------- get_secondary ---------------------------- *)

\* get_secondary_source, lines 261-264: the LeftSet it returns, trusting
\* nothing (line 264 alone)
LeftAfterSource_keep(cat, v, l, trust_secondary) == l

\* get_secondary_source, lines 261-264: the LeftSet it returns, trusting
\* always (line 263 alone)
LeftAfterSource_trust(cat, v, l, trust_secondary) == DOMAIN cat \ DOMAIN v

\* get_secondary_source, lines 261-264: the LeftSet it returns
LeftAfterSource(cat, v, l, trust_secondary) ==
    IF trust_secondary THEN DOMAIN cat \ DOMAIN v ELSE l

\* run_secondary, lines 268-270: the next source of the pass is called
InvokeSecondary ==
    /\ pc = "secondary"
    /\ left # {}
    /\ todo # <<>>
    /\ todo' = Tail(todo)
    /\ Call("secondary", Head(todo), left)
    /\ UNCHANGED <<fixed, vers, asked, left, pass, output, hist>>

\* get_secondary, lines 279-282: the first run_secondary returns
NextPass ==
    /\ pc = "secondary"
    /\ pass = 1
    /\ left = {} \/ todo = <<>>
    /\ pass' = 2
    /\ todo' = PassSources(2, asked)
    /\ UNCHANGED <<fixed, pc, vers, asked, left, cur, inflight, resp, exc,
                   output, exitcode, calls, hist>>

\* get_secondary, lines 282-285: the second run_secondary returns
EndSecondary ==
    /\ pc = "secondary"
    /\ pass = 2
    /\ left = {} \/ todo = <<>>
    /\ pc' = "finish"
    /\ UNCHANGED <<fixed, vers, asked, left, todo, pass, cur, inflight, resp,
                   exc, output, exitcode, calls, hist>>

(* ------------------------- fetch and fan-in --------------------------- *)

\* asyncio.wait returning as soon as it is called
BarrierPassed_any(fl) == TRUE

\* done, _ = await asyncio.wait(aws), line 132: it returns when no request
\* of the batch is in flight any more (return_when is ALL_COMPLETED)
BarrierPassed(fl) == fl = {}

\* fetch, line 43: one request of the batch completes, with a response or
\* with a transport error
Respond ==
    /\ pc = "waiting"
    /\ \E n \in inflight, ok \in BOOLEAN :
          /\ inflight' = inflight \ {n}
          /\ resp' = [m \in DOMAIN resp \cup {n} |-> IF m = n THEN ok ELSE resp[m]]
          /\ failedBatch' =
                IF failedBatch = <<>> /\ ~ok
                THEN <<[vers |-> vers, ncalls |-> Len(calls)]>>
                ELSE failedBatch
    /\ UNCHANGED <<fixed, pc, vers, asked, left, todo, pass, cur, exc, output,
                   exitcode, calls, primRes, leftStart, best, lower, secRes>>

\* The adapter's loop over the completed requests meets a failed one:
\* t.result() re-raises the transport error.
FanInError ==
    /\ pc = "waiting"
    /\ BarrierPassed(inflight)
    /\ Failed(resp) # {}
    /\ cur.source = "git" => Failed(resp) = DOMAIN resp
    /\ Raise("ClientError")
    /\ UNCHANGED <<fixed, vers, asked, left, todo, pass, cur, inflight, resp,
                   output, calls, hist>>

\* agit, lines 67-69: the loop meets a completed response and reads r.text,
\* a method, as a string.  done is a set: with failed and completed requests
\* in it, either kind can come first.
FanInGit ==
    /\ pc = "waiting"
    /\ BarrierPassed(inflight)
    /\ cur.source = "git"
    /\ Failed(resp) # DOMAIN resp
    /\ \/ Raise("AttributeError")
       \/ Failed(resp) # {} /\ Raise("ClientError")
    /\ UNCHANGED <<fixed, vers, asked, left, todo, pass, cur, inflight, resp,
                   output, calls, hist>>

\* The adapter returns its result and the caller merges it: get_primary,
\* lines 251-253, or get_secondary_source, lines 258-264.  The adapter's
\* loop reads each body (await r.json()) and keeps the versions it parses.
FanIn ==
    /\ pc = "waiting"
    /\ BarrierPassed(inflight)
    /\ cur.source # "git"
    /\ Failed(resp) = {}
    /\ \E new \in AdapterResults(cur.source, cur.pkgs, DOMAIN resp) :
           /\ vers' = update(vers, new)
           /\ best' = [n \in DOMAIN best |->
                          IF n \in DOMAIN new
                             /\ (best[n] = <<>> \/ VerGt(new[n], best[n][1]))
                          THEN <<new[n]>> ELSE best[n]]
           /\ lower' = lower \cup {n \in DOMAIN new \cap DOMAIN vers : VerLt(new[n], vers[n])}
           /\ IF cur.phase = "primary"
              THEN /\ pc' = "primary"
                   /\ primRes' = primRes \cup DOMAIN new
                   /\ UNCHANGED <<left, secRes>>
              ELSE /\ pc' = "secondary"
                   /\ left' = LeftAfterSource(c, vers', left, args.trust_secondary)
                   /\ secRes' = secRes \cup DOMAIN new
                   /\ UNCHANGED primRes
    /\ cur' = NoCall
    /\ resp' = EmptyMap
    /\ UNCHANGED <<fixed, asked, todo, pass, inflight, exc, output, exitcode,
                   calls, leftStart, failedBatch>>

(* -------------------------------- cli --------------------------------- *)

\* get_vers, lines 302-305, and cli, lines 364-366
ExitStatus(l) == IF l # {} THEN 1 ELSE 0

Finish ==
    /\ pc = "finish"
    /\ output' = <<make_serializable(vers)>>
    /\ exitcode' = ExitStatus(left)
    /\ pc' = "done"
    /\ UNCHANGED <<fixed, vers, asked, left, todo, pass, cur, inflight, resp,
                   exc, calls, hist>>

Next ==
    \/ ReadConfig
    \/ BeginPrimary
    \/ SkipPrimary
    \/ InvokePrimary
    \/ EndPrimary
    \/ ComputeLeft
    \/ InvokeSecondary
    \/ NextPass
    \/ EndSecondary
    \/ Respond
    \/ FanInError
    \/ FanInGit
    \/ FanIn
    \/ Finish

Spec == Init /\ [][Next]_vars

\* The run with its scheduling: the event loop runs whatever is ready, and
\* every request issued completes, with a response or with an error.
FairSpec == Spec /\ WF_vars(Next)

(* ------------------------- update() on its own ------------------------ *)

\* every mapping from some of the names to a version
VersionMaps ==
    UNION {[D -> Versions] : D \in SUBSET {NameSeq[i] : i \in 1..Len(NameSeq)}}

\* What a call update(old, new) leaves behind: its return value, and the
\* caller's old, which line 208 copies before the loop assigns to the copy.
update_call(old, new) == [old |-> old, ret |-> update(old, new)]

MergeInit ==
    /\ m_pc = "start"
    /\ m_old0 \in VersionMaps
    /\ m_old = m_old0
    /\ m_new \in VersionMaps
    /\ m_res = EmptyMap
    /\ m_again = EmptyMap
    /\ c = EmptyMap
    /\ ConfigIdle
    /\ RunIdle
    /\ AurIdle
    /\ CommuteIdle
    /\ ForgeIdle

\* res = update(old, new)
Merge ==
    /\ m_pc = "start"
    /\ m_res' = update_call(m_old, m_new).ret
    /\ m_old' = update_call(m_old, m_new).old
    /\ m_pc' = "merged"
    /\ UNCHANGED <<m_old0, m_new, m_again>>
    /\ UNCHANGED <<c, kwargs, jc, args, pc, vers, asked, left, todo, pass, cur, inflight,
                   resp, exc, output, exitcode, calls, hist, aurVars, commuteVars,
                   forgeVars>>

\* update(res, new): the same new merged once more
MergeAgain ==
    /\ m_pc = "merged"
    /\ m_again' = update_call(m_res, m_new).ret
    /\ m_pc' = "again"
    /\ UNCHANGED <<m_old0, m_old, m_new, m_res>>
    /\ UNCHANGED <<c, kwargs, jc, args, pc, vers, asked, left, todo, pass, cur, inflight,
                   resp, exc, output, exitcode, calls, hist, aurVars, commuteVars,
                   forgeVars>>

MergeNext ==
    \/ Merge
    \/ MergeAgain

MergeSpec == MergeInit /\ [][MergeNext]_vars

(* -------------------------- aaur() on its own ------------------------- *)

\* every answer the aggregator can give for one queried name
AurEntriesAll ==
    {AurEntry("omit", RawString(FALSE, <<>>, FALSE, TRUE)),
     AurEntry("null", RawString(FALSE, <<>>, FALSE, TRUE))}
        \cup {AurEntry("pkg", raw) : raw \in RawStrings}

AurInit ==
    /\ a_pc = "start"
    /\ a_pkgs \in (SUBSET {NameSeq[i] : i \in 1..Len(NameSeq)}) \ {{}}
    /\ a_own \in [1..Cardinality(a_pkgs) -> AurEntriesAll]
    /\ a_res = EmptyMap
    /\ c = EmptyMap
    /\ ConfigIdle
    /\ RunIdle
    /\ MergeIdle
    /\ CommuteIdle
    /\ ForgeIdle

\* aaur, lines 177-192, over the package set a_pkgs, the server answering
\* a_own[i] for the i-th queried name
AurCall ==
    /\ a_pc = "start"
    /\ a_res' = aaur_res(Items(a_pkgs), AurResults(a_own))
    /\ a_pc' = "returned"
    /\ UNCHANGED <<a_pkgs, a_own>>
    /\ UNCHANGED <<c, kwargs, jc, args, pc, vers, asked, left, todo, pass, cur, inflight,
                   resp, exc, output, exitcode, calls, hist, mergeVars, commuteVars,
                   forgeVars>>

AurNext == AurCall

AurSpec == AurInit /\ [][AurNext]_vars

(* ------------------ update() applied in two orders -------------------- *)

\* the maps merged into: update treats each key on its own, so one key that
\* old can hold and one that it cannot cover its cases
OldMaps == {m \in VersionMaps : DOMAIN m \subseteq {NameSeq[1]}}

CommuteInit ==
    /\ q_pc = "start"
    /\ q_old \in OldMaps
    /\ q_a \in VersionMaps
    /\ q_b \in VersionMaps
    /\ q_ab = EmptyMap
    /\ q_ba = EmptyMap
    /\ c = EmptyMap
    /\ ConfigIdle
    /\ RunIdle
    /\ MergeIdle
    /\ AurIdle
    /\ ForgeIdle

\* update(update(old, a), b) and update(update(old, b), a)
Commute ==
    /\ q_pc = "start"
    /\ q_ab' = update(update(q_old, q_a), q_b)
    /\ q_ba' = update(update(q_old, q_b), q_a)
    /\ q_pc' = "merged"
    /\ UNCHANGED <<q_old, q_a, q_b>>
    /\ UNCHANGED <<c, kwargs, jc, args, pc, vers, asked, left, todo, pass, cur, inflight,
                   resp, exc, output, exitcode, calls, hist, mergeVars, aurVars,
                   forgeVars>>

CommuteNext == Commute

CommuteSpec == CommuteInit /\ [][CommuteNext]_vars

(* ---------------------- agithub()'s loop on its own -------------------- *)

\* The bodies of one batch's responses: the tag or release names a forge
\* can list for one package, any strings try_parse_versions can be given,
\* next to a second package's list of at most one name.
ForgeBody(x, y) == [bar |-> x, foo |-> y]

ForgeInit ==
    /\ f_pc = "start"
    /\ \E x \in SeqsUpTo(WireStrings, 1), y \in SeqsUpTo(RawStrings, MaxCands) :
          f_body = ForgeBody(x, y)
    /\ f_res = EmptyMap
    /\ c = EmptyMap
    /\ ConfigIdle
    /\ RunIdle
    /\ MergeIdle
    /\ AurIdle
    /\ CommuteIdle

\* agithub, lines 133-141, over the responses f_body
ForgeLoop ==
    /\ f_pc = "start"
    /\ f_res' = agithub_res(f_body)
    /\ f_pc' = "returned"
    /\ UNCHANGED f_body
    /\ UNCHANGED <<c, kwargs, jc, args, pc, vers, asked, left, todo, pass, cur, inflight,
                   resp, exc, output, exitcode, calls, hist, mergeVars, aurVars,
                   commuteVars>>

ForgeNext == ForgeLoop

ForgeSpec == ForgeInit /\ [][ForgeNext]_vars

(* ----------------------------- properties ----------------------------- *)

SecondaryCalls == {i \in DOMAIN calls : calls[i].phase = "secondary"}

\* C1: ResolvedMap is monotone throughout a run: a mapped name is never
\* removed and never later maps to a strictly lower version.
C1_ResolvedMapMonotone ==
    [][\A k \in DOMAIN vers : k \in DOMAIN vers' /\ VerGe(vers'[k], vers[k])]_vars

\* an adapter has returned a lower version for a name that was mapped
C1_Witness == \E n \in lower : n \in DOMAIN vers

\* C2: with trust_primary enabled, a package that declares a primary source
\* and was resolved in the primary phase is in the package set of no adapter
\* call of the secondary phase.
C2_PrimaryResolvedNotRequeried ==
    args.trust_primary =>
        \A i \in SecondaryCalls : \A P \in calls[i].pkgs :
            ~(c[P].primary # "" /\ P \in primRes)

\* a finished run, trust_primary on and trust_secondary off, in which the
\* primary phase resolved a package and the secondary phase called adapters
C2_Witness ==
    /\ pc = "done"
    /\ args.trust_primary
    /\ ~args.trust_secondary
    /\ \E P \in primRes : c[P].primary # ""
    /\ SecondaryCalls # {}

\* every source of sources_list was called, in the secondary phase, with P
AskedEverySource(P) ==
    \A k \in 1..Len(sources_list) :
        \E i \in SecondaryCalls :
            calls[i].source = sources_list[k] /\ P \in calls[i].pkgs

\* C3: with trust_secondary disabled, a package of the LeftSet the secondary
\* phase started with has, when the run is over (no request having failed
\* in transport), been passed to every source of both passes, and its final
\* version is at least every version an adapter returned for it.
C3_UntrustedSecondaryAsksAll ==
    (/\ args.secondary
     /\ ~args.trust_secondary
     /\ pc \in {"done", "aborted"}
     /\ failedBatch = <<>>) =>
        \A P \in leftStart :
            /\ AskedEverySource(P)
            /\ best[P] # <<>> => P \in DOMAIN vers /\ VerGe(vers[P], best[P][1])

\* What holds of C3 in the code: every adapter call of the secondary phase
\* gets the whole LeftSet the phase started with, and a run that reaches its
\* terminal state has passed it to every source and ends with versions at
\* least every candidate.
C3_OnFinishedRuns ==
    (args.secondary /\ ~args.trust_secondary) =>
        /\ \A i \in SecondaryCalls : calls[i].pkgs = leftStart
        /\ pc = "done" =>
              \A P \in leftStart :
                 /\ AskedEverySource(P)
                 /\ best[P] # <<>> =>
                       P \in DOMAIN vers /\ VerGe(vers[P], best[P][1])

\* a finished run in which a secondary source returned, for a package an
\* earlier secondary source had resolved, a lower version
C3_Witness ==
    /\ pc = "done"
    /\ args.secondary
    /\ ~args.trust_secondary
    /\ \E P \in leftStart : P \in lower /\ P \notin primRes

\* C4: with trust_secondary enabled, a package a secondary source has
\* resolved is out of LeftSet, is in the package set of no later adapter call,
\* and keeps its version.
C4_TrustedSecondaryIsFinal ==
    [][args.trust_secondary =>
         \A P \in secRes :
            /\ P \notin left
            /\ vers'[P] = vers[P]
            /\ calls' # calls => P \notin calls'[Len(calls')].pkgs]_vars

\* a later secondary call went out without a package an earlier one resolved
C4_Witness ==
    /\ args.trust_secondary
    /\ \E i, j \in SecondaryCalls : \E P \in secRes :
          i < j /\ P \in calls[i].pkgs /\ P \notin calls[j].pkgs

\* C5: at termination no package of LeftSet has an entry in ResolvedMap; the
\* exit status is 0 when every catalog package is resolved, and 1 only when
\* some package has no version.
C5_LeftMeansUnresolved ==
    pc = "done" =>
        /\ left \cap DOMAIN vers = {}
        /\ DOMAIN c \subseteq DOMAIN vers => exitcode = 0
        /\ exitcode = 1 => \E n \in DOMAIN c : n \notin DOMAIN vers

\* C6: an adapter called over a package set in which no package has an
\* identifier it can use does not end the run with an error.
C6_NoUsableIdentifierIsNoError ==
    \A i \in DOMAIN calls :
        Requests(calls[i].source, c, calls[i].pkgs) = {} =>
            ~(pc = "aborted" /\ exc = "ValueError")

\* C7: update(old, new) has the keys of both maps; a key absent from old
\* takes new's value, a key of both takes new's value only if it is strictly
\* greater, a key of old alone keeps its value; no value of old decreases,
\* and old is left as it was.
C7_MergePolicy ==
    m_pc # "start" =>
        /\ DOMAIN m_res = DOMAIN m_old0 \cup DOMAIN m_new
        /\ \A k \in DOMAIN m_new \ DOMAIN m_old0 : m_res[k] = m_new[k]
        /\ \A k \in DOMAIN m_new \cap DOMAIN m_old0 :
              m_res[k] = IF VerGt(m_new[k], m_old0[k]) THEN m_new[k] ELSE m_old0[k]
        /\ \A k \in DOMAIN m_old0 \ DOMAIN m_new : m_res[k] = m_old0[k]
        /\ \A k \in DOMAIN m_old0 : VerGe(m_res[k], m_old0[k])
        /\ m_old = m_old0

\* a merge with a tie between two spellings of one version and a strictly
\* greater new value
C7_Witness ==
    /\ m_pc = "merged"
    /\ \E k \in DOMAIN m_new \cap DOMAIN m_old0 :
          VerEq(m_new[k], m_old0[k]) /\ m_new[k] # m_old0[k]
    /\ \E k \in DOMAIN m_new \cap DOMAIN m_old0 : VerGt(m_new[k], m_old0[k])

\* C8: merging the same new map a second time changes nothing.
C8_MergeIdempotent == m_pc = "again" => m_again = m_res

\* a second merge after a first one that replaced a value, kept a value and
\* inserted a key
C8_Witness ==
    /\ m_pc = "again"
    /\ m_res # m_old0
    /\ \E k \in DOMAIN m_new \cap DOMAIN m_old0 : ~VerGt(m_new[k], m_old0[k])

\* C9: the aggregator adapter maps every queried package to the version of
\* its own entry, and leaves out exactly the packages whose entry is omitted,
\* null or without a parseable version.
C9_AurAlignment ==
    a_pc = "returned" =>
        \A i \in 1..Len(Items(a_pkgs)) :
            LET n == Items(a_pkgs)[i]
                own == try_parse_versions(<<a_own[i].Version>>)
            IN  IF a_own[i].kind = "pkg" /\ own # <<>>
                THEN n \in DOMAIN a_res /\ a_res[n] = own[1]
                ELSE n \notin DOMAIN a_res

\* C10: once a request of a batch has failed in transport the run goes on
\* to nothing but its abort: ResolvedMap stays what it was, no further
\* adapter is called and nothing is printed.
C10_TransportFailureAborts ==
    failedBatch # <<>> =>
        /\ pc \in {"waiting", "aborted"}
        /\ pc = "aborted" => exc \in {"ClientError", "AttributeError"}
        /\ vers = failedBatch[1].vers
        /\ Len(calls) = failedBatch[1].ncalls
        /\ output = <<>>
        /\ exitcode \in {-1, 1}

\* a run with a mapped version, aborted by a transport error in a batch
\* another request of which came back with a response
C10_Witness ==
    /\ pc = "aborted"
    /\ exc = "ClientError"
    /\ failedBatch # <<>>
    /\ vers # EmptyMap
    /\ \E n \in DOMAIN resp : resp[n]

\* C11: an options block with a key outside the allow-list ends the run
\* with a configuration error before any adapter is called or request
\* issued, and nothing is printed.
C11_UnknownOptionIsFatal ==
    ~(DOMAIN jc \subseteq AllowList) =>
        /\ pc \in {"cli", "aborted"}
        /\ pc = "aborted" => exc = "KeyError" /\ exitcode = 1
        /\ calls = <<>>
        /\ inflight = {}
        /\ resp = EmptyMap
        /\ output = <<>>

\* a run over a catalog with packages, ended by the configuration error
C11_Witness ==
    /\ "bogus" \in DOMAIN jc
    /\ pc = "aborted"
    /\ exc = "KeyError"
    /\ \E n \in DOMAIN c : c[n].github

PrimaryCalls == {i \in DOMAIN calls : calls[i].phase = "primary"}

\* the source kinds some package declares as its primary
DeclaredPrimaries == {c[n].primary : n \in DOMAIN c} \ {""}

\* get_primary has returned (line 254) in a run with the primary phase on
PrimaryEnded ==
    /\ args.primary
    /\ \/ pc \in {"left", "secondary", "finish", "done"}
       \/ cur.phase = "secondary"

SecondarySources ==
    LET np == Cardinality(PrimaryCalls)
    IN  [i \in 1 .. (Len(calls) - np) |-> calls[np + i].source]

\* the candidate sources: those not in AskedSet, then those in AskedSet
SecondaryOrder ==
    SelectSeq(sources_list, LAMBDA x : x \notin asked)
        \o SelectSeq(sources_list, LAMBDA x : x \in asked)

\* C13: the sources the secondary phase invokes are, in order, an initial
\* part of the candidate sources not in AskedSet followed by those in
\* AskedSet (so none is invoked twice and no asked source precedes an
\* unasked one), and the phase ends short of the last candidate only with
\* LeftSet empty: an asked source is invoked when LeftSet is non-empty at
\* its turn.
C13_AskedSourcesLast ==
    /\ Len(SecondarySources) <= Len(SecondaryOrder)
    /\ \A i \in DOMAIN SecondarySources :
          SecondarySources[i] = SecondaryOrder[i]
    /\ (pc \in {"finish", "done"} /\ args.secondary /\ leftStart # {}) =>
          \/ left = {}
          \/ SecondarySources = SecondaryOrder

\* a finished run whose secondary phase invoked an asked source after the
\* unasked ones
C13_Witness ==
    /\ pc = "done"
    /\ left # {}
    /\ \E i \in DOMAIN SecondarySources :
          /\ i > 1
          /\ SecondarySources[i] \in asked
          /\ SecondarySources[i - 1] \notin asked

\* C14: with trust_primary off LeftSet starts the secondary phase as all
\* catalog names, and with trust_secondary on the names a returning
\* secondary source removes from LeftSet are names a secondary source has
\* resolved and include every name new to ResolvedMap: a name only the
\* primary phase resolved stays in LeftSet.
C14_OnlyNewlyResolvedLeave ==
    [][ /\ (pc = "left" /\ ~args.trust_primary) => left' = DOMAIN c
        /\ (pc = "waiting" /\ pc' = "secondary" /\ args.trust_secondary) =>
              /\ left' \subseteq left
              /\ (left \ left') \subseteq secRes'
              /\ (DOMAIN vers' \ DOMAIN vers) \cap left' = {} ]_vars

\* C15: while a request is in flight the run is inside one adapter
\* invocation, every request of that invocation is in flight or has
\* completed (all were issued together), the requests in flight are that
\* invocation's, and no step taken while a request is in flight changes
\* ResolvedMap or LeftSet or begins another invocation.
C15_BatchBarrier ==
    [][ /\ inflight # {} =>
              /\ vers' = vers
              /\ left' = left
              /\ calls' = calls
        /\ inflight' # {} =>
              /\ pc' = "waiting"
              /\ cur' = calls'[Len(calls')]
              /\ inflight' \cup DOMAIN resp' = Requests(cur'.source, c', cur'.pkgs)
              /\ inflight' \cap DOMAIN resp' = {} ]_vars

\* a batch of two requests, one completed, one still in flight, after an
\* earlier invocation has put a version into ResolvedMap
C15_Witness ==
    /\ pc = "waiting"
    /\ Cardinality(inflight) = 1
    /\ Cardinality(DOMAIN resp) = 1
    /\ Len(calls) > 1
    /\ vers # EmptyMap

\* Python's == on two result maps: the same keys, Version.__eq__ on values
MapEq(x, y) ==
    /\ DOMAIN x = DOMAIN y
    /\ \A k \in DOMAIN x : VerEq(x[k], y[k])

\* C16: merging a then b and merging b then a give equal maps and the same
\* printed output.
C16_MergeCommutes ==
    q_pc = "merged" =>
        /\ MapEq(q_ab, q_ba)
        /\ make_serializable(q_ab) = make_serializable(q_ba)

\* C16 as the code has it: the two orders give the same keys and versions
\* that compare equal; where a and b hold equal versions spelled
\* differently, each order keeps the spelling it merged first.
C16_MergeCommutesUpToSpelling ==
    q_pc = "merged" =>
        /\ MapEq(q_ab, q_ba)
        /\ \A k \in DOMAIN q_ab :
              q_ab[k] # q_ba[k] =>
                  /\ k \in DOMAIN q_a \cap DOMAIN q_b
                  /\ VerEq(q_a[k], q_b[k])
                  /\ q_ab[k] = q_a[k]
                  /\ q_ba[k] = q_b[k]

\* a and b hold equal versions of one name spelled differently and the two
\* orders print different strings
C16_Witness ==
    /\ q_pc = "merged"
    /\ \E k \in DOMAIN q_a \cap DOMAIN q_b :
          /\ VerEq(q_a[k], q_b[k])
          /\ make_serializable(q_ab)[k] # make_serializable(q_ba)[k]

\* C17: an invocation of the generic-git-refs adapter whose requests all
\* got a response does not end the run with an exception, whatever package
\* set it is invoked over.
C17_GitAdapterTotal ==
    (pc = "aborted" /\ cur.source = "git") => exc = "ClientError"

\* the candidates of package n that version.parse takes for a version
Parseable(n) == {i \in DOMAIN f_body[n] : ~f_body[n][i].legacy}

\* C18: for each package of a forge response the adapter reports the
\* release-only form of one of its parseable candidates, with or without a
\* leading "v", and no parseable candidate is greater than it; strings that
\* do not parse are passed over, and a package none of whose candidates
\* parses is not in the result.
C18_ForgeReportsGreatest ==
    f_pc = "returned" =>
        \A n \in DOMAIN f_body :
            IF Parseable(n) = {}
            THEN n \notin DOMAIN f_res
            ELSE /\ n \in DOMAIN f_res
                 /\ \E i \in Parseable(n) : f_res[n].rel = f_body[n][i].rel
                 /\ \A j \in Parseable(n) :
                       ~TupleLess(StripZeros(f_res[n].rel),
                                  StripZeros(f_body[n][j].rel))

\* one package's candidates are a "v"-prefixed greater version listed before
\* a lower one, the other's single candidate does not parse
C18_Witness ==
    /\ f_pc = "returned"
    /\ Len(f_body["foo"]) = 2
    /\ Parseable("foo") = {1, 2}
    /\ f_body["foo"][1].v
    /\ TupleLess(StripZeros(f_body["foo"][2].rel), StripZeros(f_body["foo"][1].rel))
    /\ f_res["foo"].rel = f_body["foo"][1].rel
    /\ Len(f_body["bar"]) = 1
    /\ Parseable("bar") = {}
    /\ "bar" \notin DOMAIN f_res

\* the parseable candidates of package n that are pre-releases
PreReleases(n) == {i \in Parseable(n) : f_body[n][i].pre}

\* the candidates of package n with the greatest release segments
Greatest(n) ==
    {i \in Parseable(n) :
        \A j \in Parseable(n) :
            ~TupleLess(StripZeros(f_body[n][i].rel), StripZeros(f_body[n][j].rel))}

\* C19: in the order try_parse_versions sorts by, a pre-release of X is
\* strictly below the release X, and a package whose greatest candidates
\* are all pre-releases of X is not reported as being at X.
C19_PreReleaseBelowRelease ==
    f_pc = "returned" =>
        \A n \in DOMAIN f_body :
            /\ \A i \in PreReleases(n), j \in Parseable(n) \ PreReleases(n) :
                  f_body[n][i].rel = f_body[n][j].rel =>
                      VerLt(ParseOne(f_body[n][i])[1], ParseOne(f_body[n][j])[1])
            /\ (Greatest(n) # {} /\ Greatest(n) \subseteq PreReleases(n)) =>
                  \/ n \notin DOMAIN f_res
                  \/ \A i \in Greatest(n) : ~VerEq(f_res[n], [rel |-> f_body[n][i].rel])

\* C19 as the code has it: a pre-release of X is reduced to X before it is
\* sorted, so it is a candidate equal to the release X; a package whose
\* greatest candidate is a pre-release of X is reported at X, whether or not
\* the release X is among its candidates.
C19_PreReleaseReducedToRelease ==
    f_pc = "returned" =>
        \A n \in DOMAIN f_body :
            \A i \in PreReleases(n) \cap Greatest(n) :
                /\ n \in DOMAIN f_res
                /\ VerEq(f_res[n], [rel |-> f_body[n][i].rel])
                /\ \A j \in Parseable(n) \ PreReleases(n) :
                      f_body[n][i].rel = f_body[n][j].rel =>
                          VerEq(f_res[n], ParseOne(f_body[n][j])[1])

\* the candidates are a pre-release of X and a lower release, and X is
\* reported
C19_Witness ==
    /\ f_pc = "returned"
    /\ Len(f_body["foo"]) = 2
    /\ PreReleases("foo") = {1}
    /\ Greatest("foo") = {1}
    /\ Parseable("foo") = {1, 2}
    /\ f_res["foo"].rel = f_body["foo"][1].rel

\* the options block is accepted and no request has failed in transport
NothingFailed ==
    /\ DOMAIN jc \subseteq AllowList
    /\ failedBatch = <<>>

\* C20: a run whose requests all complete is not stopped short of its
\* terminal state (the final ResolvedMap and LeftSet, printed): until then
\* it has a next step; each source kind is invoked at most once in the
\* primary and at most once in the secondary phase, and the secondary phase
\* invokes no source over an empty LeftSet.
C20_RunReachesTerminalState ==
    /\ NothingFailed => (pc = "done" \/ ENABLED Next)
    /\ \A i, j \in DOMAIN calls :
          (calls[i].phase = calls[j].phase /\ calls[i].source = calls[j].source)
              => i = j
    /\ \A i \in SecondaryCalls : calls[i].pkgs # {}

\* What holds of every run: with fair scheduling it ends, in its terminal
\* state or by an exception.
C20_RunEnds == <>(pc \in {"done", "aborted"})

\* What holds of every run: while a request is in flight the run waits, and
\* nothing but the completion of a request can happen.
C20_HungRequestStalls ==
    [][inflight # {} => (pc = "waiting" /\ inflight' # inflight)]_vars

====
